---- MODULE Spec2Model ----
(***************************************************************************)
(* PersonTracker (src/app.py): greedy nearest-centroid tracking with       *)
(* disappearance handling.  One tracker object; one action, Update, that   *)
(* models a whole call of PersonTracker.update.                            *)
(*                                                                         *)
(* Python lists and the insertion-ordered dict self.tracks are sequences;  *)
(* indices are 1-based here where Python's are 0-based.                    *)
(***************************************************************************)
EXTENDS Integers, Sequences, FiniteSets, TLC

VARIABLES
    tracks,      \* self.tracks: the dict, as the sequence of its entries in
                 \* iteration (insertion) order, each [id, centroid, disappeared]
    next_id,     \* self.next_id
    detections,  \* argument of the latest update call
    ret,         \* value returned by the latest update call
    raised,      \* the exception the latest update call raised, or NoError
    stale_col,   \* whether the latest call read a best_col that the scan of
                 \* the detection at hand had not assigned
    branch,      \* history: the path the latest call took: "empty" (line 33),
                 \* "first" (line 48), "match" (line 55); "none" before any call
    n_new,       \* history: the number of tracks the latest call created
    assigned,    \* history: the dict assignments (detection index -> track
                 \* ID) as the matching loop of the latest call left it;
                 \* empty when the call did not reach line 63
    contest,     \* history: what the matching loop of the latest call met:
                 \* "tie" when a detection was assigned a track while
                 \* another unclaimed track was exactly as near, "late"
                 \* when a later detection was nearer to a claimed track
                 \* than the detection that claimed it
    created,     \* history: every key written by a track-creating assignment
                 \* (lines 50 and 99), in the order of the writes
    heap,        \* the PersonTracker objects that process_video has constructed,
                 \* in the order of construction, each [tracks, next_id, created]
    runs,        \* per request to /process, the run of process_video: pc, the
                 \* local tracker (an index into heap, None before line 121),
                 \* the frames of the video as the detector reports them, the
                 \* number of frames read, and the track_ids of line 143 per frame
    box,         \* a rectangle (x1, y1, x2, y2) given to lines 43-45
    centre,      \* the centroid lines 43-45 computed for box, << >> before
    missed       \* history: per created ID, the number of consecutive update
                 \* calls, up to the latest, in which no detection was assigned
                 \* to it (frozen once the track has left the mapping)

callvars ==
    <<tracks, next_id, detections, ret, raised, stale_col, branch, n_new,
      assigned, contest, created, missed>>

runvars == <<heap, runs>>

boxvars == <<box, centre>>

vars == <<callvars, runvars, boxvars>>

-----------------------------------------------------------------------------
(* Bounds of the model *)

\* most detections in one frame
MaxDets == 2
\* update calls that would create an ID above MaxId are not explored
MaxId == 2

(* Program constants *)

\* self.max_disappeared
max_disappeared == 10
\* the literal distance threshold of line 77
DistGate == 100

\* Rectangles (x1, y1, x2, y2) the detector may deliver.  Their centroids
\* lie on one line: (0,0), (30,40), (60,80).  Neighbours are 50 apart, so
\* that (30,40) is as near to the one as to the other, and (0,0) and (60,80)
\* are exactly 100 apart.  The second rectangle has an odd width and height.
Rects ==
    { <<0, 0, 0, 0>>, <<20, 30, 41, 51>>, <<50, 70, 70, 90>> }

\* Rectangles of two groups far from each other: the centroids (0,0) and
\* (30,40) are 300 and 250 from (180,240)
FarRects ==
    { <<0, 0, 0, 0>>, <<20, 30, 41, 51>>, <<160, 220, 201, 260>> }

\* the largest coordinate of the rectangles whose centroid is taken alone
MaxCoord == 3

\* the rectangles with coordinates 0..n, the corners in any order
Boxes(n) == [1..4 -> 0..n]

\* the requests to /process that are modelled
NumRuns == 2

\* the uploaded videos, each the list of its frames, a frame being the list
\* of person rectangles that lines 130-140 collect from it
Videos ==
    { << << <<0, 0, 0, 0>>, <<50, 70, 70, 90>> >>, << <<20, 30, 41, 51>> >>,
         << >> >>,
      << << <<160, 220, 201, 260>> >>,
         << <<160, 220, 201, 260>>, <<0, 0, 0, 0>> >> >>,
      << << >>, << <<50, 70, 70, 90>> >> >> }

\* the detection lists of at most n rectangles of rects, no rectangle twice
\* in a list
FramesOf(rects, n) ==
    UNION { { f \in [1..k -> rects] : \A a, b \in 1..k : a # b => f[a] # f[b] }
            : k \in 0..n }

Frames(n) == FramesOf(Rects, n)

\* None, and the state of a local name that is not bound yet
None == 0
Unbound == 0 - 1
NoError == "none"

-----------------------------------------------------------------------------
(* Helpers for the dict-as-sequence *)

Keys(t) == [k \in 1..Len(t) |-> t[k].id]

KeySet(t) == { t[k].id : k \in 1..Len(t) }

Range(s) == { s[k] : k \in DOMAIN s }

\* position of key id in t, or 0
IndexOf(t, id) ==
    IF \E k \in 1..Len(t) : t[k].id = id
    THEN CHOOSE k \in 1..Len(t) : t[k].id = id /\ \A m \in 1..(k-1) : t[m].id # id
    ELSE 0

\* self.tracks[id] = {'centroid': c, 'disappeared': 0}: a new key is appended,
\* an existing key keeps its place and gets the new value
SetItem(t, id, c) ==
    LET e == [id |-> id, centroid |-> c, disappeared |-> 0] IN
    IF IndexOf(t, id) = 0 THEN Append(t, e)
    ELSE [t EXCEPT ![IndexOf(t, id)] = e]

-----------------------------------------------------------------------------
(* PersonTracker.update, piece by piece *)

\* int(s / 2) for an integer s: s / 2 is the float of s halves, which int
\* truncates toward zero
IntOfHalves(s) == IF s >= 0 THEN s \div 2 ELSE 0 - ((0 - s) \div 2)

CentroidRoundUp(r) ==
    << IntOfHalves(r[1] + r[3] + 1), IntOfHalves(r[2] + r[4] + 1) >>

\* lines 43-46: int((x1 + x2) / 2), int((y1 + y2) / 2)
Centroid(r) == << IntOfHalves(r[1] + r[3]), IntOfHalves(r[2] + r[4]) >>

\* lines 42-46: the list input_centroids, appended to per detection from i on
RECURSIVE AppendCentroids(_, _, _)
AppendCentroids(acc, dets, i) ==
    IF i > Len(dets) THEN acc
    ELSE AppendCentroids(Append(acc, Centroid(dets[i])), dets, i + 1)

input_centroids(dets) == AppendCentroids(<< >>, dets, 1)

\* lines 74-75 without the square root: the squared Euclidean distance.
\* sqrt is strictly increasing and exact enough on these integers, so
\* dist < min_dist and dist < 100 are decided on the squares.
Dist2(a, b) == (a[1] - b[1]) * (a[1] - b[1]) + (a[2] - b[2]) * (a[2] - b[2])

WithinGateUnsquared(d2) == d2 < DistGate

\* line 77, dist < 100
WithinGate(d2) == d2 < DistGate * DistGate

CloserAny(d2, min_dist) == TRUE

\* line 77, dist < min_dist, with min_dist = Unbound standing for float('inf')
Closer(d2, min_dist) == min_dist = Unbound \/ d2 < min_dist

ExpiredLate(e) == e.disappeared > max_disappeared + 1

\* lines 37 and 107
Expired(e) == e.disappeared > max_disappeared

AgeAllEarly(t) ==
    SelectSeq([k \in 1..Len(t) |-> [t[k] EXCEPT !.disappeared = @ + 1]],
              LAMBDA e : e.disappeared < max_disappeared)

\* lines 35-38: age every track, dropping those past the threshold
AgeAll(t) ==
    SelectSeq([k \in 1..Len(t) |-> [t[k] EXCEPT !.disappeared = @ + 1]],
              LAMBDA e : ~Expired(e))

ScanStepNoCol(c, track_id, track_centroid, j, st) ==
    IF /\ Closer(Dist2(c, track_centroid), st.min_dist)
       /\ WithinGate(Dist2(c, track_centroid))
    THEN [min_dist |-> Dist2(c, track_centroid), best_track |-> track_id,
          best_col |-> st.best_col, bound_here |-> st.bound_here]
    ELSE st

\* lines 69-80: one pass of the inner loop body for column j, not yet claimed.
\* st is the state of the locals min_dist, best_track, best_col; bound_here
\* records that best_col was assigned during the current detection's scan.
ScanStep(c, track_id, track_centroid, j, st) ==
    LET dist == Dist2(c, track_centroid) IN
    IF Closer(dist, st.min_dist) /\ WithinGate(dist)
    THEN [min_dist |-> dist, best_track |-> track_id, best_col |-> j,
          bound_here |-> TRUE]
    ELSE st

RECURSIVE ScanTracksReversed(_, _, _, _, _, _)
ScanTracksReversed(c, track_ids, track_centroids, used_cols, j, st) ==
    IF j > Len(track_ids) THEN st
    ELSE ScanTracksReversed(
             c, track_ids, track_centroids, used_cols, j + 1,
             IF (Len(track_ids) + 1 - j) \in used_cols THEN st
             ELSE ScanStep(c, track_ids[Len(track_ids) + 1 - j],
                           track_centroids[Len(track_ids) + 1 - j],
                           Len(track_ids) + 1 - j, st))

\* lines 69-80: the inner loop from column j on
RECURSIVE ScanTracks(_, _, _, _, _, _)
ScanTracks(c, track_ids, track_centroids, used_cols, j, st) ==
    IF j > Len(track_ids) THEN st
    ELSE ScanTracks(c, track_ids, track_centroids, used_cols, j + 1,
                    IF j \in used_cols THEN st
                    ELSE ScanStep(c, track_ids[j], track_centroids[j], j, st))

ClaimNoUsedCol(m, i, s) ==
    IF s.best_track = None THEN m
    ELSE IF s.best_col = Unbound THEN [m EXCEPT !.error = "NameError"]
    ELSE [used_rows   |-> m.used_rows \cup {i},
          used_cols   |-> m.used_cols,
          assignments |-> (i :> s.best_track) @@ m.assignments,
          best_col    |-> s.best_col,
          error       |-> m.error,
          stale       |-> m.stale \/ ~s.bound_here]

\* lines 82-85: the end of the outer loop body for detection i, the scan
\* having ended in s.  m holds used_rows, used_cols, assignments, the local
\* best_col as the previous iterations left it, the error raised so far and
\* stale: whether line 85 has read a best_col that the scan of the detection
\* at hand did not assign.
Claim(m, i, s) ==
    IF s.best_track = None THEN m
    ELSE IF s.best_col = Unbound THEN [m EXCEPT !.error = "NameError"]
    ELSE [used_rows   |-> m.used_rows \cup {i},
          used_cols   |-> m.used_cols \cup {s.best_col},
          assignments |-> (i :> s.best_track) @@ m.assignments,
          best_col    |-> s.best_col,
          error       |-> m.error,
          stale       |-> m.stale \/ ~s.bound_here]

MatchStepAllCols(m, i, c, track_ids, track_centroids) ==
    Claim(m, i,
          ScanTracks(c, track_ids, track_centroids, {}, 1,
                     [min_dist |-> Unbound, best_track |-> None,
                      best_col |-> m.best_col, bound_here |-> FALSE]))

\* lines 65-85: the outer loop body for detection i with centroid c
MatchStep(m, i, c, track_ids, track_centroids) ==
    Claim(m, i,
          ScanTracks(c, track_ids, track_centroids, m.used_cols, 1,
                     [min_dist |-> Unbound, best_track |-> None,
                      best_col |-> m.best_col, bound_here |-> FALSE]))

\* lines 61-85: the outer loop from detection i on; an exception ends it
RECURSIVE Match(_, _, _, _, _)
Match(m, i, centroids, track_ids, track_centroids) ==
    IF i > Len(centroids) \/ m.error # NoError THEN m
    ELSE Match(MatchStep(m, i, centroids[i], track_ids, track_centroids),
               i + 1, centroids, track_ids, track_centroids)

\* lines 57-85
Assign(t, centroids) ==
    Match([used_rows |-> {}, used_cols |-> {}, assignments |-> << >>,
           best_col |-> Unbound, error |-> NoError, stale |-> FALSE],
          1, centroids, Keys(t), [k \in 1..Len(t) |-> t[k].centroid])

InputIdxAny(assignments, track_id) ==
    CHOOSE k \in DOMAIN assignments : \A m \in DOMAIN assignments : k <= m

\* line 90: the first key of assignments, in insertion order, whose value is
\* track_id; keys are inserted in increasing order of i
InputIdx(assignments, track_id) ==
    CHOOSE k \in DOMAIN assignments :
        /\ assignments[k] = track_id
        /\ \A m \in DOMAIN assignments : assignments[m] = track_id => k <= m

UpdateExistingNoAge(t, assignments, centroids) ==
    [k \in 1..Len(t) |->
        IF t[k].id \in Range(assignments)
        THEN [t[k] EXCEPT !.centroid = centroids[InputIdx(assignments, t[k].id)],
                          !.disappeared = 0]
        ELSE t[k]]

\* lines 88-94: refresh the assigned tracks, age the others
UpdateExisting(t, assignments, centroids) ==
    [k \in 1..Len(t) |->
        IF t[k].id \in Range(assignments)
        THEN [t[k] EXCEPT !.centroid = centroids[InputIdx(assignments, t[k].id)],
                          !.disappeared = 0]
        ELSE [t[k] EXCEPT !.disappeared = @ + 1]]

NewTrackSameId(s, c) ==
    [tracks  |-> SetItem(s.tracks, s.next_id, c),
     next_id |-> s.next_id,
     created |-> Append(s.created, s.next_id)]

\* lines 50-54 and 99-103: store a track under next_id, then advance next_id.
\* s holds tracks, next_id and the history of the keys written.
NewTrack(s, c) ==
    [tracks  |-> SetItem(s.tracks, s.next_id, c),
     next_id |-> s.next_id + 1,
     created |-> Append(s.created, s.next_id)]

\* lines 49-54: a track for every centroid from i on
RECURSIVE CreateAll(_, _, _)
CreateAll(s, centroids, i) ==
    IF i > Len(centroids) THEN s
    ELSE CreateAll(NewTrack(s, centroids[i]), centroids, i + 1)

RECURSIVE AddUnassignedUnlessNear(_, _, _, _)
AddUnassignedUnlessNear(s, centroids, used_rows, i) ==
    IF i > Len(centroids) THEN s
    ELSE AddUnassignedUnlessNear(
             IF \/ i \in used_rows
                \/ \E k \in 1..Len(s.tracks) :
                      /\ s.tracks[k].disappeared = 0
                      /\ WithinGate(Dist2(centroids[i], s.tracks[k].centroid))
             THEN s ELSE NewTrack(s, centroids[i]),
             centroids, used_rows, i + 1)

\* lines 97-103: a track for every centroid from i on that is not in used_rows
RECURSIVE AddUnassigned(_, _, _, _)
AddUnassigned(s, centroids, used_rows, i) ==
    IF i > Len(centroids) THEN s
    ELSE AddUnassigned(IF i \in used_rows THEN s ELSE NewTrack(s, centroids[i]),
                       centroids, used_rows, i + 1)

RemoveDisappearedEarly(t) ==
    SelectSeq(t, LAMBDA e : e.disappeared < max_disappeared)

\* lines 106-108
RemoveDisappeared(t) == SelectSeq(t, LAMBDA e : ~Expired(e))

\* what a call leaves behind: the object (tracks, next_id), the value
\* returned, the exception raised, and for the histories the keys written so
\* far, the dict assignments with the IDs in it, the stale flag and the path
Outcome(t, nid, log, r, err, assignments, stale, path) ==
    [tracks |-> t, next_id |-> nid, created |-> log, ret |-> r,
     raised |-> err, assignments |-> assignments,
     matched |-> Range(assignments), stale |-> stale, branch |-> path]

\* lines 33-39: the call with no detection
UpdateNoDetections(t, nid, log) ==
    Outcome(AgeAll(t), nid, log, << >>, NoError, << >>, FALSE, "empty")

\* line 110 after lines 48-54, s being the object as the loop left it
ReturnCreated(s) ==
    Outcome(s.tracks, s.next_id, s.created, Keys(s.tracks), NoError, << >>,
            FALSE, "first")

\* lines 48-54 and 110: detections, and no track yet
UpdateNoTracksReversed(t, nid, log, centroids) ==
    ReturnCreated(CreateAll([tracks |-> t, next_id |-> nid, created |-> log],
                            [i \in 1..Len(centroids) |->
                                centroids[Len(centroids) + 1 - i]], 1))

UpdateNoTracks(t, nid, log, centroids) ==
    ReturnCreated(CreateAll([tracks |-> t, next_id |-> nid, created |-> log],
                            centroids, 1))

ReturnBeforeRemoval(s, m, r) ==
    Outcome(r, s.next_id, s.created, Keys(s.tracks), NoError,
            m.assignments, m.stale, "match")

\* line 110, r being the dict after lines 105-108
ReturnRemaining(s, m, r) ==
    Outcome(r, s.next_id, s.created, Keys(r), NoError, m.assignments,
            m.stale, "match")

\* lines 105-110, s being the object after lines 87-103 and m the matching
RemoveAndReturn(s, m) == ReturnRemaining(s, m, RemoveDisappeared(s.tracks))

AfterMatchAddAll(t, nid, log, centroids, m) ==
    IF m.error # NoError
    THEN Outcome(t, nid, log, << >>, m.error, << >>, m.stale, "match")
    ELSE RemoveAndReturn(
             AddUnassigned([tracks  |-> UpdateExisting(t, m.assignments, centroids),
                            next_id |-> nid, created |-> log],
                           centroids, {}, 1),
             m)

\* lines 87-110, m being the matching lines 57-85 made.  An exception in the
\* matching loop leaves the object untouched: the loop precedes every write.
AfterMatch(t, nid, log, centroids, m) ==
    IF m.error # NoError
    THEN Outcome(t, nid, log, << >>, m.error, << >>, m.stale, "match")
    ELSE RemoveAndReturn(
             AddUnassigned([tracks  |-> UpdateExisting(t, m.assignments, centroids),
                            next_id |-> nid, created |-> log],
                           centroids, m.used_rows, 1),
             m)

\* lines 55-110: detections and tracks
UpdateMatching(t, nid, log, centroids) ==
    AfterMatch(t, nid, log, centroids, Assign(t, centroids))

\* lines 32-110: PersonTracker.update(dets) on the object state (t, nid)
update(t, nid, log, dets) ==
    IF Len(dets) = 0 THEN UpdateNoDetections(t, nid, log)
    ELSE IF Len(t) = 0 THEN UpdateNoTracks(t, nid, log, input_centroids(dets))
    ELSE UpdateMatching(t, nid, log, input_centroids(dets))

-----------------------------------------------------------------------------
(* The state machine *)

\* lines 27-30: PersonTracker(); no call has been made yet
Init ==
    /\ tracks = << >>
    /\ next_id = 1
    /\ detections = << >>
    /\ ret = << >>
    /\ raised = NoError
    /\ stale_col = FALSE
    /\ branch = "none"
    /\ n_new = 0
    /\ assigned = << >>
    /\ contest = {}
    /\ created = << >>
    /\ missed = << >>
    /\ box = << 0, 0, 0, 0 >>
    /\ centre = << >>
    /\ heap = << >>
    /\ runs = [r \in 1..NumRuns |->
                 [pc |-> "idle", tracker |-> None, video |-> << >>, frame_count |-> 0,
                  track_ids |-> << >>]]

\* the consecutive calls without an assignment, per created ID, after a call
\* that found the tracks t and assigned detections to the IDs in r.matched
Missed(t, r) ==
    [id \in Range(r.created) |->
        IF id \in r.matched THEN 0
        ELSE IF id \in KeySet(t) THEN missed[id] + 1
        ELSE IF id \in DOMAIN missed THEN missed[id]
        ELSE 0]

\* history of lines 65-85 for detection k of dets, with centroid c, which was
\* assigned the track that stood at e, at squared distance d: "tie" when
\* another track of t, unclaimed then, was exactly as near, "late" when a
\* later detection of the list is nearer to e
ContestAt(t, dets, assignments, k, c, e, d) ==
    (IF \E j \in 1..Len(t) :
            /\ Dist2(c, t[j].centroid) = d
            /\ t[j].id # assignments[k]
            /\ \A g \in DOMAIN assignments : g < k => assignments[g] # t[j].id
     THEN {"tie"} ELSE {})
    \cup
    (IF \E h \in (k + 1)..Len(dets) : Dist2(Centroid(dets[h]), e) < d
     THEN {"late"} ELSE {})

\* the same with the centroid of detection k and that of its track in t
ContestOf(t, dets, assignments, k, c, e) ==
    ContestAt(t, dets, assignments, k, c, e, Dist2(c, e))

\* history of lines 65-85 for the call that found the tracks t and assigned
\* the detections of dets as in assignments
Contest(t, dets, assignments) ==
    UNION { ContestOf(t, dets, assignments, k, Centroid(dets[k]),
                      t[CHOOSE j \in 1..Len(t) :
                            t[j].id = assignments[k]].centroid)
            : k \in DOMAIN assignments }

\* the state after a call with argument dets and outcome r
Returns(dets, r) ==
    /\ r.next_id <= MaxId + 1
    /\ tracks' = r.tracks
    /\ next_id' = r.next_id
    /\ detections' = dets
    /\ ret' = r.ret
    /\ raised' = r.raised
    /\ stale_col' = r.stale
    /\ branch' = r.branch
    /\ n_new' = r.next_id - next_id
    /\ assigned' = r.assignments
    /\ contest' = Contest(tracks, dets, r.assignments)
    /\ created' = r.created
    /\ missed' = Missed(tracks, r)
    /\ UNCHANGED <<runvars, boxvars>>

\* one call tracker.update(dets), as process_video makes it per frame
\* (line 143); an exception ends the run.  A list longer than the mapping
\* creates a track for each detection in excess at least: if that takes
\* more IDs than MaxId leaves, the call is beyond the bound of Returns
Update(dets) ==
    /\ raised = NoError
    /\ next_id + Len(dets) - Len(tracks) <= MaxId + 1
    /\ Returns(dets, update(tracks, next_id, created, dets))

Next == \E dets \in Frames(MaxDets) : Update(dets)

Spec == Init /\ [][Next]_vars

\* the same tracker given frames of the two groups far from each other
NextFar == \E dets \in FramesOf(FarRects, MaxDets) : Update(dets)

SpecFar == Init /\ [][NextFar]_vars

-----------------------------------------------------------------------------
(* process_video, one run per request, each with its own local tracker *)

ConstructShared(h) ==
    IF Len(h) = 0
    THEN << [tracks |-> << >>, next_id |-> 1, created |-> << >>] >>
    ELSE h

\* line 121 with lines 27-30: PersonTracker() makes a new object
Construct(h) ==
    Append(h, [tracks |-> << >>, next_id |-> 1, created |-> << >>])

\* line 121: the name tracker of the run is bound to the object just made
Bind(r, video, h) ==
    /\ heap' = h
    /\ runs' = [runs EXCEPT ![r] = [pc |-> "running", tracker |-> Len(h),
                                     video |-> video, frame_count |-> 0,
                                     track_ids |-> << >>]]

\* lines 112-122: a request starts a run on an uploaded video
Start(r, video) ==
    /\ runs[r].pc = "idle"
    /\ Bind(r, video, Construct(heap))
    /\ UNCHANGED <<callvars, boxvars>>

\* lines 143-163: the tracker of the run has made the call with outcome res
Store(r, res) ==
    /\ heap' = [heap EXCEPT ![runs[r].tracker] =
                    [tracks |-> res.tracks, next_id |-> res.next_id,
                     created |-> res.created]]
    /\ runs' = [runs EXCEPT
                    ![r].pc = IF res.raised = NoError THEN "running" ELSE "failed",
                    ![r].frame_count = @ + 1,
                    ![r].track_ids = Append(@, res.ret)]

\* lines 124-163: one pass of the loop, the frame read and given to update
Frame(r) ==
    /\ runs[r].pc = "running"
    /\ runs[r].frame_count < Len(runs[r].video)
    /\ Store(r, update(heap[runs[r].tracker].tracks,
                       heap[runs[r].tracker].next_id,
                       heap[runs[r].tracker].created,
                       runs[r].video[runs[r].frame_count + 1]))
    /\ UNCHANGED <<callvars, boxvars>>

\* lines 125-127 and 164-166: no frame is left, the run ends
Finish(r) ==
    /\ runs[r].pc = "running"
    /\ runs[r].frame_count = Len(runs[r].video)
    /\ runs' = [runs EXCEPT ![r].pc = "done"]
    /\ UNCHANGED heap
    /\ UNCHANGED <<callvars, boxvars>>

NextRuns ==
    \E r \in 1..NumRuns :
        \/ \E video \in Videos : Start(r, video)
        \/ Frame(r)
        \/ Finish(r)

SpecRuns == Init /\ [][NextRuns]_vars

-----------------------------------------------------------------------------
(* the centroid of a rectangle, taken alone *)

\* lines 42-46 for one rectangle r of the detection list
TakeCentroid(r) ==
    /\ box' = r
    /\ centre' = Centroid(r)
    /\ UNCHANGED <<callvars, runvars>>

NextCentroid == \E r \in Boxes(MaxCoord) : TakeCentroid(r)

SpecCentroid == Init /\ [][NextCentroid]_vars

-----------------------------------------------------------------------------
(* Vocabulary of the properties *)

\* the entry of key id in the dict t
Track(t, id) == t[CHOOSE k \in 1..Len(t) : t[k].id = id]

NoDuplicates(s) == \A a, b \in 1..Len(s) : a # b => s[a] # s[b]

\* the IDs that have been created and are in the mapping no more
Gone == Range(created) \ KeySet(tracks)

\* the midpoint of rectangle r with the half pixel dropped
Midpoint(r) == << (r[1] + r[3]) \div 2, (r[2] + r[4]) \div 2 >>

\* centroids a and b are strictly less than d pixels apart
Within(a, b, d) ==
    (a[1] - b[1]) * (a[1] - b[1]) + (a[2] - b[2]) * (a[2] - b[2]) < d * d

\* the permutations of the sequence s
Perms(s) ==
    { [i \in 1..Len(s) |-> s[p[i]]] :
        p \in { q \in [1..Len(s) -> 1..Len(s)] :
                  \A a, b \in 1..Len(s) : a # b => q[a] # q[b] } }

-----------------------------------------------------------------------------
(* C1: a call with zero detections ages every track by one, removes those  *)
(* whose disappeared then exceeds 10, and returns the IDs of the tracks    *)
(* that remain in the mapping.  The code returns [] whatever remains.      *)
C1_EmptyFrameReturnsRemaining ==
    [][detections' = << >> =>
        /\ KeySet(tracks') =
              { id \in KeySet(tracks) : Track(tracks, id).disappeared + 1 <= 10 }
        /\ \A id \in KeySet(tracks') :
              Track(tracks', id).disappeared = Track(tracks, id).disappeared + 1
        /\ Range(ret') = KeySet(tracks')
        /\ NoDuplicates(ret')]_vars

(* C2: after a call with at least one detection the value returned lists   *)
(* exactly the keys of the mapping as the removal step left it: no ID      *)
(* twice, no removed ID, no live ID missing.                               *)
C2_ReturnIsLiveKeys ==
    Len(detections) >= 1 =>
        /\ NoDuplicates(ret)
        /\ Range(ret) = KeySet(tracks)
        /\ Range(ret) \cap Gone = {}

\* a call with a detection has removed track 1 and returned the other track
C2_Witness ==
    /\ branch = "match"
    /\ Len(detections) >= 1
    /\ 1 \in Gone
    /\ ret = << 2 >>

(* C3: every track in the mapping has 0 <= disappeared <= 10, and no ID     *)
(* returned belongs to a track whose disappeared exceeds 10.               *)
C3_DisappearedInRange ==
    /\ \A k \in 1..Len(tracks) :
          tracks[k].disappeared >= 0 /\ tracks[k].disappeared <= 10
    /\ \A id \in Range(ret) : \A k \in 1..Len(tracks) :
          tracks[k].id = id => tracks[k].disappeared <= 10

\* a track at the threshold is still held, and returned
C3_Witness ==
    \E k \in 1..Len(tracks) :
        tracks[k].disappeared = 10 /\ tracks[k].id \in Range(ret)

\* the keys written by the track-creating assignments so far are
\* 1, 2, ..., next_id - 1 in this order, and the live IDs are among them
IdsInOrder ==
    /\ created = [k \in 1..(next_id - 1) |-> k]
    /\ \A id \in KeySet(tracks) : id >= 1 /\ id < next_id
    /\ NoDuplicates(Keys(tracks))

(* C4: IDs are handed out as 1, 2, 3, ... : the next-ID counter never      *)
(* decreases, every live ID is below the counter, and the keys written by  *)
(* the track-creating assignments are 1, 2, ..., next_id - 1 in this order, *)
(* so none is written twice, whatever was removed in between.              *)
C4_IdsNeverReused ==
    [][IdsInOrder /\ IdsInOrder' /\ next_id' >= next_id]_vars

\* track 1 has been removed, and the call that found the mapping empty gave
\* its detection ID 2, not 1
C4_Witness ==
    /\ branch = "first"
    /\ n_new = 1
    /\ KeySet(tracks) = {2}
    /\ missed[1] = 11

(* C5: a call with an empty detection list creates no track: the counter   *)
(* is unchanged, no key is added, every surviving track keeps its centroid *)
(* and has aged by one, and only tracks past the threshold are removed.    *)
C5_EmptyFrameCreatesNothing ==
    [][detections' = << >> =>
        /\ next_id' = next_id
        /\ created' = created
        /\ KeySet(tracks') \subseteq KeySet(tracks)
        /\ \A id \in KeySet(tracks') :
              /\ Track(tracks', id).centroid = Track(tracks, id).centroid
              /\ Track(tracks', id).disappeared = Track(tracks, id).disappeared + 1
        /\ \A id \in KeySet(tracks) \ KeySet(tracks') :
              Track(tracks, id).disappeared + 1 > 10]_vars

\* an empty frame has aged two tracks and created none
C5_Witness ==
    /\ branch = "empty"
    /\ detections = << >>
    /\ Len(tracks) = 2
    /\ \A k \in 1..Len(tracks) : tracks[k].disappeared >= 1

(* C6: a call with N >= 1 detections on an empty mapping creates exactly N *)
(* tracks, one per detection in input order, the i-th with ID              *)
(* next_id + i - 1 and disappeared 0, and returns exactly those N IDs; on  *)
(* a fresh tracker they are 1..N.                                          *)
C6_FirstFrameCreatesAll ==
    [][(Len(tracks) = 0 /\ Len(detections') >= 1) =>
        /\ tracks' = [i \in 1..Len(detections') |->
                        [id |-> next_id + i - 1,
                         centroid |-> Midpoint(detections'[i]),
                         disappeared |-> 0]]
        /\ next_id' = next_id + Len(detections')
        /\ ret' = [i \in 1..Len(detections') |-> next_id + i - 1]
        /\ (branch = "none" => ret' = [i \in 1..Len(detections') |-> i])]_vars

\* the first call of a tracker, with all MaxDets detections
C6_Witness ==
    /\ branch = "first"
    /\ n_new = MaxDets
    /\ Len(detections) = MaxDets
    /\ ret = [i \in 1..MaxDets |-> i]
    /\ tracks[1].centroid # tracks[2].centroid

(* C7: a tracker holding a single track, given one detection strictly less *)
(* than 100 pixels from the track's centroid, holds after the call exactly *)
(* that track, under its ID, at the detection's centroid, with disappeared *)
(* 0, and has created no ID; the state after is again of this shape, so    *)
(* this lasts for any number of such frames.                               *)
C7_SingleTrackKeepsId ==
    [][(/\ Len(tracks) = 1
        /\ Len(detections') = 1
        /\ Within(Midpoint(detections'[1]), tracks[1].centroid, 100)) =>
        /\ tracks' = << [id |-> tracks[1].id,
                         centroid |-> Midpoint(detections'[1]),
                         disappeared |-> 0] >>
        /\ ret' = << tracks[1].id >>
        /\ next_id' = next_id
        /\ created' = created]_vars

\* track 1, the only ID ever created, was assigned the single detection of
\* the latest call and stands at its centroid
C7_Witness ==
    /\ branch = "match"
    /\ created = << 1 >>
    /\ Len(detections) = 1
    /\ tracks = << [id |-> 1, centroid |-> << 30, 40 >>, disappeared |-> 0] >>
    /\ detections[1] = << 20, 30, 41, 51 >>

(* C8: a track that has gone without an assigned detection in k            *)
(* consecutive calls since it was last assigned one (or created) is in the *)
(* mapping with disappeared = k as long as k <= 10, and leaves the mapping *)
(* in the 11th such call, be the calls empty frames or frames whose        *)
(* detections went elsewhere.                                              *)
C8_RemovedOnEleventhMiss ==
    /\ \A id \in KeySet(tracks) :
          missed[id] <= 10 /\ Track(tracks, id).disappeared = missed[id]
    /\ \A id \in Gone : missed[id] = 11

\* a frame whose detection went to track 2 was the 11th miss of track 1 and
\* the 10th of no track
C8_Witness ==
    /\ branch = "match"
    /\ n_new = 0
    /\ missed = << 11, 0 >>
    /\ KeySet(tracks) = {2}

\* track id lies strictly within 100 pixels of the i-th rectangle of dets
NearTrack(t, dets, i, id) == Within(Midpoint(dets[i]), Track(t, id).centroid, 100)

\* the tracks of t are pairwise at least 200 apart, and each rectangle of
\* dets lies strictly within 100 of a track of t that is near no other one
C9_Case(t, dets) ==
    /\ Len(t) >= 1
    /\ Len(dets) >= 1
    /\ \A a, b \in 1..Len(t) :
          a # b => ~Within(t[a].centroid, t[b].centroid, 200)
    /\ \A i \in 1..Len(dets) : \E id \in KeySet(t) : NearTrack(t, dets, i, id)
    /\ \A i, j \in 1..Len(dets) : \A id \in KeySet(t) :
          (i # j /\ NearTrack(t, dets, i, id)) => ~NearTrack(t, dets, j, id)

(* C9: with the tracks pairwise at least 200 pixels apart and every        *)
(* detection strictly within 100 pixels of a track of its own, each        *)
(* detection goes to its near track and to no other: that track keeps its  *)
(* ID, stands at the detection's centroid with disappeared 0, every other  *)
(* track ages by one, no ID is created, the IDs returned are those of the  *)
(* mapping, and every order of the detections gives the same mapping and   *)
(* the same return value.                                                  *)
C9_FarTracksMatchOwnDetection ==
    [][C9_Case(tracks, detections') =>
        /\ next_id' = next_id
        /\ KeySet(tracks') \subseteq KeySet(tracks)
        /\ ret' = Keys(tracks')
        /\ \A i \in 1..Len(detections') : \A id \in KeySet(tracks) :
              NearTrack(tracks, detections', i, id) =>
                  /\ id \in KeySet(tracks')
                  /\ Track(tracks', id).centroid = Midpoint(detections'[i])
                  /\ Track(tracks', id).disappeared = 0
        /\ \A id \in KeySet(tracks) :
              (\A i \in 1..Len(detections') :
                    ~NearTrack(tracks, detections', i, id)) =>
                  /\ id \in KeySet(tracks') <=> Track(tracks, id).disappeared < 10
                  /\ id \in KeySet(tracks') =>
                        /\ Track(tracks', id).centroid = Track(tracks, id).centroid
                        /\ Track(tracks', id).disappeared =
                              Track(tracks, id).disappeared + 1
        /\ \A p \in Perms(detections') :
              /\ update(tracks, next_id, created, p).tracks = tracks'
              /\ update(tracks, next_id, created, p).ret = ret']_vars

\* tracks 1 and 2, 250 apart, each took the detection near it, the detection
\* of track 2 coming first in the list; no ID was created
C9_Witness ==
    /\ branch = "match"
    /\ n_new = 0
    /\ detections = << << 160, 220, 201, 260 >>, << 20, 30, 41, 51 >> >>
    /\ tracks = << [id |-> 1, centroid |-> << 30, 40 >>, disappeared |-> 0],
                   [id |-> 2, centroid |-> << 180, 240 >>, disappeared |-> 0] >>
    /\ ret = << 1, 2 >>

(* C10: update is total: no call raises, whatever the state and the list,  *)
(* and line 85 never reads a best_col that the scan of the detection at    *)
(* hand has not assigned.                                                  *)
C10_UpdateNeverRaises ==
    /\ raised = NoError
    /\ ~stale_col
    /\ ret \in Seq(1..(next_id - 1))

\* the first detection was assigned a track, binding best_col; the second
\* found none, so that the binding of the first was left over, and the call
\* returned
C10_Witness ==
    /\ branch = "match"
    /\ Len(detections) = 2
    /\ n_new = 1
    /\ tracks[1].centroid = Midpoint(detections[1])
    /\ tracks[1].disappeared = 0
    /\ tracks[2].centroid = Midpoint(detections[2])
    /\ raised = NoError
    /\ ret = << 1, 2 >>

\* the squared distance between the centroids a and b
Apart2(a, b) ==
    (a[1] - b[1]) * (a[1] - b[1]) + (a[2] - b[2]) * (a[2] - b[2])

\* the tracks of t that the detections before the i-th have not claimed
\* under the assignment asg
Unclaimed(t, asg, i) ==
    KeySet(t) \ { asg[j] : j \in { k \in DOMAIN asg : k < i } }

(* C11: in a frame with tracks and detections, each detection, in input    *)
(* order, is assigned a track if and only if some pre-existing track not   *)
(* claimed by an earlier detection is strictly less than 100 pixels from   *)
(* its centroid; the track assigned is unclaimed and no unclaimed track is *)
(* nearer.  A detection whose nearest unclaimed track is 100 pixels away   *)
(* or more is left unassigned.                                             *)
C11_NearestUnclaimedWithinGate ==
    [][(Len(tracks) >= 1 /\ Len(detections') >= 1) =>
        \A i \in 1..Len(detections') :
            /\ i \in DOMAIN assigned' <=>
                  \E id \in Unclaimed(tracks, assigned', i) :
                      Within(Midpoint(detections'[i]),
                             Track(tracks, id).centroid, 100)
            /\ i \in DOMAIN assigned' =>
                  /\ assigned'[i] \in Unclaimed(tracks, assigned', i)
                  /\ \A id \in Unclaimed(tracks, assigned', i) :
                        Apart2(Midpoint(detections'[i]),
                               Track(tracks, assigned'[i]).centroid)
                          <= Apart2(Midpoint(detections'[i]),
                                    Track(tracks, id).centroid)]_vars

\* track 1 stood at (0, 0), exactly 100 pixels from the single detection at
\* (60, 80): the detection was left unassigned and became track 2, track 1
\* aged
C11_Witness ==
    /\ branch = "match"
    /\ detections = << << 50, 70, 70, 90 >> >>
    /\ assigned = << >>
    /\ n_new = 1
    /\ tracks = << [id |-> 1, centroid |-> << 0, 0 >>, disappeared |-> 1],
                   [id |-> 2, centroid |-> << 60, 80 >>, disappeared |-> 0] >>

(* C12: within one call the assignment is a partial one-to-one matching of *)
(* the detections of the frame to the tracks that existed before the call: *)
(* no track is assigned to two detections, a detection is assigned at most *)
(* one track, and the track assigned stands at that detection's centroid   *)
(* after the call.                                                         *)
C12_AssignmentIsPartialMatching ==
    /\ DOMAIN assigned \subseteq 1..Len(detections)
    /\ \A i, j \in DOMAIN assigned : assigned[i] = assigned[j] => i = j
    /\ \A i \in DOMAIN assigned :
          /\ assigned[i] \in KeySet(tracks)
          /\ assigned[i] < next_id - n_new
          /\ Track(tracks, assigned[i]).centroid = Midpoint(detections[i])
          /\ Track(tracks, assigned[i]).disappeared = 0
    /\ \A id \in KeySet(tracks) :
          Cardinality({ i \in DOMAIN assigned : assigned[i] = id }) <= 1

\* both detections were nearest to track 1, the second nearer than the
\* first: the first took track 1, the second track 2
C12_Witness ==
    /\ branch = "match"
    /\ Len(detections) = 2
    /\ assigned = << 1, 2 >>
    /\ "late" \in contest
    /\ n_new = 0

\* the frame dets has two detections, track id of t lies strictly within 100
\* pixels of both, and no other track of t within 100 pixels of either
C13_Case(t, dets, id) ==
    /\ Len(dets) = 2
    /\ id \in KeySet(t)
    /\ \A i \in 1..2 : \A other \in KeySet(t) :
          NearTrack(t, dets, i, other) <=> other = id

\* in the mapping t track id stands at the centroid of rectangle kept with
\* disappeared 0, and track fresh at the centroid of rectangle made
C13_Outcome(t, id, kept, fresh, made) ==
    /\ id \in KeySet(t)
    /\ Track(t, id).centroid = Midpoint(kept)
    /\ Track(t, id).disappeared = 0
    /\ fresh \in KeySet(t)
    /\ Track(t, fresh).centroid = Midpoint(made)
    /\ Track(t, fresh).disappeared = 0

(* C13: when both detections of a frame lie strictly within 100 pixels of  *)
(* the same track, their only candidate, the detection earlier in the list *)
(* keeps that track's ID and the later one becomes a new track under the   *)
(* next ID, whichever of the two is nearer to the track; the same frame    *)
(* with its two detections swapped gives the ID to the other detection.    *)
C13_EarlierDetectionWins ==
    [][\A id \in KeySet(tracks) :
          C13_Case(tracks, detections', id) =>
              /\ C13_Outcome(tracks', id, detections'[1], next_id,
                             detections'[2])
              /\ next_id' = next_id + 1
              /\ id < next_id
              /\ C13_Outcome(update(tracks, next_id, created,
                                    << detections'[2], detections'[1] >>).tracks,
                             id, detections'[2], next_id, detections'[1])]_vars

\* the second detection was nearer to track 1 than the first, and within
\* 100 pixels of it; the first kept ID 1 and the second became track 2
C13_Witness ==
    /\ branch = "match"
    /\ Len(detections) = 2
    /\ assigned = << 1 >>
    /\ "late" \in contest
    /\ n_new = 1
    /\ Len(tracks) = 2
    /\ tracks[1] = [id |-> 1, centroid |-> Midpoint(detections[1]),
                    disappeared |-> 0]
    /\ tracks[2] = [id |-> 2, centroid |-> Midpoint(detections[2]),
                    disappeared |-> 0]

(* C14: in every call each track that existed before the call is changed   *)
(* in exactly one of two ways: a track that was assigned a detection       *)
(* stands at that detection's centroid with disappeared 0; any other track *)
(* keeps its centroid and has disappeared one higher than before, and it   *)
(* is in the mapping after the call exactly when that value is at most 10. *)
C14_RefreshedOrAgedOnce ==
    [][\A id \in KeySet(tracks) :
          /\ \A i \in DOMAIN assigned' :
                assigned'[i] = id =>
                    /\ id \in KeySet(tracks')
                    /\ Track(tracks', id).centroid = Midpoint(detections'[i])
                    /\ Track(tracks', id).disappeared = 0
          /\ id \notin Range(assigned') =>
                /\ id \in KeySet(tracks') <=>
                      Track(tracks, id).disappeared + 1 <= 10
                /\ id \in KeySet(tracks') =>
                      /\ Track(tracks', id).centroid = Track(tracks, id).centroid
                      /\ Track(tracks', id).disappeared =
                            Track(tracks, id).disappeared + 1]_vars

\* of two tracks the single detection went to track 2, which stands at its
\* centroid with disappeared 0, and track 1 has aged
C14_Witness ==
    /\ branch = "match"
    /\ Len(detections) = 1
    /\ assigned = << 2 >>
    /\ n_new = 0
    /\ Len(tracks) = 2
    /\ tracks[1].id = 1
    /\ tracks[1].disappeared = 3
    /\ tracks[2] = [id |-> 2, centroid |-> Midpoint(detections[1]),
                    disappeared |-> 0]

\* the indices of the detections of a frame of n detections that the
\* assignment asg left without a track
Unassigned(n, asg) == (1..n) \ DOMAIN asg

\* the ID due to the unassigned detection i when the counter stood at nid:
\* nid for the first unassigned detection of the list, nid + 1 for the next
IdDue(n, asg, nid, i) ==
    nid + Cardinality({ j \in Unassigned(n, asg) : j < i })

C16_TieGoesToLowerId ==
    [][/\ \A a, b \in 1..Len(tracks) : a < b => tracks[a].id < tracks[b].id
       /\ \A i \in DOMAIN assigned' :
             \A id \in Unclaimed(tracks, assigned', i) :
                 Apart2(Midpoint(detections'[i]), Track(tracks, id).centroid)
                   = Apart2(Midpoint(detections'[i]),
                            Track(tracks, assigned'[i]).centroid)
                 => assigned'[i] <= id]_vars

\* tracks 1 and 2 were both 50 pixels from the single detection at (30, 40):
\* track 1 was assigned it and track 2 aged
C16_Witness ==
    /\ branch = "match"
    /\ "tie" \in contest
    /\ detections = << << 20, 30, 41, 51 >> >>
    /\ assigned = << 1 >>
    /\ n_new = 0
    /\ Len(tracks) = 2
    /\ tracks[1] = [id |-> 1, centroid |-> << 30, 40 >>, disappeared |-> 0]
    /\ tracks[2].id = 2
    /\ tracks[2].disappeared = 1

\* the tracks of the mapping that the latest call refreshed or created
Fresh == { k \in 1..Len(tracks) : tracks[k].disappeared = 0 }

(* C17: after a call with N >= 1 detections exactly N tracks of the        *)
(* mapping have disappeared = 0, one per detection and standing at its     *)
(* centroid, so the call returns at least N IDs, all of them; no detection *)
(* is assigned a track created in the same call, and no two detections of  *)
(* a frame end up in the same track, however near they are to each other.  *)
C17_OneFreshTrackPerDetection ==
    Len(detections) >= 1 =>
        /\ Cardinality(Fresh) = Len(detections)
        /\ Len(ret) >= Len(detections)
        /\ \A k \in Fresh : tracks[k].id \in Range(ret)
        /\ \A i \in 1..Len(detections) :
              Cardinality({ k \in Fresh :
                              tracks[k].centroid = Midpoint(detections[i]) }) = 1
        /\ \A i \in DOMAIN assigned : assigned[i] < next_id - n_new
        /\ \A i, j \in 1..Len(detections) :
              i # j => \A k \in Fresh :
                  ~(/\ tracks[k].centroid = Midpoint(detections[i])
                    /\ tracks[k].centroid = Midpoint(detections[j]))

\* two detections less than 100 pixels apart: the first found no track
\* within 100 pixels and became track 2, the second was assigned track 1 and
\* did not join the track made for the first
C17_Witness ==
    /\ branch = "match"
    /\ Len(detections) = 2
    /\ Within(Midpoint(detections[1]), Midpoint(detections[2]), 100)
    /\ assigned = (2 :> 1)
    /\ n_new = 1
    /\ Cardinality(Fresh) = 2
    /\ ret = << 1, 2 >>

\* a run that executes alone: a tracker of its own, new, is given the first
\* n frames of the video; the tracker it leaves and the track_ids per frame
RECURSIVE Alone(_, _)
Alone(video, n) ==
    IF n = 0
    THEN [tracks |-> << >>, next_id |-> 1, created |-> << >>,
          track_ids |-> << >>]
    ELSE LET before == Alone(video, n - 1)
             res == update(before.tracks, before.next_id, before.created,
                           video[n])
         IN  [tracks |-> res.tracks, next_id |-> res.next_id,
              created |-> res.created,
              track_ids |-> Append(before.track_ids, res.ret)]

\* the runs that have constructed their tracker
Started == { r \in 1..NumRuns : runs[r].pc # "idle" }

(* C18: every run of process_video has a tracker of its own, so that no    *)
(* tracker state passes from one run to another: the first track created   *)
(* in any run has ID 1, and however the update calls of the runs are       *)
(* interleaved, the tracker of each run and the IDs each of its calls      *)
(* returned are those of the same run executing alone.                     *)
C18_RunsDoNotShareTracker ==
    /\ \A r, q \in Started : r # q => runs[r].tracker # runs[q].tracker
    /\ \A r \in Started :
          /\ runs[r].tracker \in 1..Len(heap)
          /\ heap[runs[r].tracker].created # << >> =>
                heap[runs[r].tracker].created[1] = 1
          /\ heap[runs[r].tracker].tracks =
                Alone(runs[r].video, runs[r].frame_count).tracks
          /\ heap[runs[r].tracker].next_id =
                Alone(runs[r].video, runs[r].frame_count).next_id
          /\ runs[r].track_ids =
                Alone(runs[r].video, runs[r].frame_count).track_ids

\* two runs on the same video are both between their first and their last
\* frame, run 2 having started first: each has created its track 1
C18_Witness ==
    /\ runs[1].pc = "running"
    /\ runs[2].pc = "running"
    /\ runs[2].tracker = 1
    /\ runs[1].tracker = 2
    /\ runs[1].video = runs[2].video
    /\ runs[1].frame_count = 1
    /\ runs[2].frame_count = 1
    /\ runs[1].track_ids = << << 1 >> >>
    /\ runs[2].track_ids = << << 1 >> >>
    /\ heap[1].created = << 1 >>
    /\ heap[2].created = << 1 >>

(* C19: for a rectangle (x1, y1, x2, y2) with non-negative integer         *)
(* coordinates the centroid computed is ((x1 + x2) div 2, (y1 + y2) div 2): *)
(* twice each coordinate of it is the sum of the two corners or one less,  *)
(* the exact midpoint with the half pixel dropped.                         *)
C19_CentroidIsIntegerMidpoint ==
    centre # << >> =>
        /\ \A k \in 1..4 : box[k] >= 0
        /\ centre = << (box[1] + box[3]) \div 2, (box[2] + box[4]) \div 2 >>
        /\ 2 * centre[1] <= box[1] + box[3]
        /\ box[1] + box[3] <= 2 * centre[1] + 1
        /\ 2 * centre[2] <= box[2] + box[4]
        /\ box[2] + box[4] <= 2 * centre[2] + 1

\* the midpoint of (1, 0, 2, 3) is (1.5, 1.5), and the centroid is (1, 1)
C19_Witness ==
    /\ box = << 1, 0, 2, 3 >>
    /\ centre = << 1, 1 >>

====
